---- MODULE Spec2Model ----
(***************************************************************************)
(* Model of python/setup.py: CUDA toolkit discovery (lines 16-29), the     *)
(* extension build spec (lines 31-49) and the hand-off to the packaging    *)
(* backend (lines 51-75).  The script is a straight-line program; pc is    *)
(* the line about to execute.                                              *)
(*                                                                         *)
(* A path string is a record [abs, parts]: abs tells whether it starts     *)
(* with "/", parts are its components.  The empty string is the relative   *)
(* path with no components; "/" is the absolute path with no components.   *)
(***************************************************************************)
EXTENDS Naturals, Sequences, FiniteSets

VARIABLES
  pc,                \* line of setup.py about to run, or a final position
  environ,           \* os.environ["CUDA_HOME"]: [set, val]
  PATH,              \* os.environ["PATH"] split on ":", a sequence of paths
  host,              \* sys.prefix of the interpreter running the script
  fs,                \* the filesystem: [dirs, files], absolute component lists
  fs0,               \* the filesystem when this run of the script started
  CUDA_HOME,         \* the module global CUDA_HOME: [set, val]
  path_to_cuda_gdb,  \* the module global path_to_cuda_gdb: [found, val]
  probed,            \* shutil.which("cuda-gdb") was called in this run
  error,             \* the exception that ended this run, if any
  cuda_include_dir,  \* the module global cuda_include_dir: [set, val]
  extensions,        \* the module global extensions: a sequence of Extension
  backend_invoked,   \* cythonize()/setup() was called in this run
  prev               \* what the previous completed build was configured with

vars == <<pc, environ, PATH, host, fs, fs0, CUDA_HOME, path_to_cuda_gdb,
          probed, error, cuda_include_dir, extensions, backend_invoked, prev>>

(* Longest PATH (number of entries) the model enumerates. *)
MaxPathEntries == 2

-----------------------------------------------------------------------------
(* Path strings and the os.path functions the script calls. *)

Abs(parts) == [abs |-> TRUE, parts |-> parts]

Rel(parts) == [abs |-> FALSE, parts |-> parts]

EmptyStr == Rel(<<>>)

(* os.path.dirname: everything before the last "/" (the root stays itself,
   a single relative component gives the empty string). *)
Dirname(p) ==
  IF p.parts = <<>> THEN p
  ELSE [p EXCEPT !.parts = SubSeq(p.parts, 1, Len(p.parts) - 1)]

(* os.path.join(p, name) for a relative one-component name. *)
Join(p, name) == [p EXCEPT !.parts = Append(p.parts, name)]

(* The process's working directory: the python/ directory of the project. *)
cwd == <<"proj">>

(* The absolute location a path string names ("." names the directory it
   is looked up in). *)
NotDot(c) == c # "."

Resolve(p) ==
  SelectSeq(IF p.abs THEN p.parts ELSE cwd \o p.parts, NotDot)

(* Fault: any non-empty string is taken for a directory. *)
IsDirMissingCheck(f, p) == p # EmptyStr

(* os.path.isdir: the empty string names nothing. *)
IsDir(f, p) == p # EmptyStr /\ Resolve(p) \in f.dirs

(* shutil.which's access check: an existing executable that is not a
   directory. *)
AccessCheck(f, p) == Resolve(p) \in f.files

(* shutil.which("cuda-gdb"): the first PATH entry holding the tool, joined
   with the tool's name; None when no entry holds it. *)
None == [found |-> FALSE, val |-> EmptyStr]

Which(f, path) ==
  LET hits == {i \in 1..Len(path) : AccessCheck(f, Join(path[i], "cuda-gdb"))}
  IN IF hits = {} THEN None
     ELSE LET i == CHOOSE j \in hits : \A k \in hits : j <= k
          IN [found |-> TRUE, val |-> Join(path[i], "cuda-gdb")]

-----------------------------------------------------------------------------
(* The values of the script. *)

(* os.environ.get("CUDA_HOME", False) *)
False == [set |-> FALSE, val |-> EmptyStr]

Str(p) == [set |-> TRUE, val |-> p]

EnvironGet(e) == IF e.set THEN Str(e.val) ELSE False

(* Fault: "is not False" instead of truth, so "" counts as set. *)
TruthyEmptyIsSet(v) == v.set

(* Python truth of CUDA_HOME: False and "" are falsy. *)
Truthy(v) == v.set /\ v.val # EmptyStr

(* Faults: probing whatever the override; falling back to the probe when
   the override is no directory. *)
NeedsProbeAlways(v) == TRUE

NeedsProbeOrInvalid(v) == ~Truthy(v) \/ ~IsDir(fs, v.val)

(* line 17: "if not CUDA_HOME" *)
NeedsProbe(v) == ~Truthy(v)

(* Fault: one dirname only, giving <root>/bin. *)
ToolkitRootParent(p) == Dirname(p)

(* line 26: the grandparent of the located binary *)
ToolkitRoot(p) == Dirname(Dirname(p))

Lit(s) == [tag |-> "lit", lit |-> s, path |-> EmptyStr]

Fmt(p) == [tag |-> "path", lit |-> "", path |-> p]

NoError == [kind |-> "none", line |-> 0, text |-> <<>>]

(* Fault: a message that does not say which variable to set. *)
NotFoundMessageNoVar ==
  <<Lit("Could not locate CUDA. "),
    Lit("Please set the toolkit location "),
    Lit("and try again.")>>

(* lines 20-25 *)
NotFoundMessage ==
  <<Lit("Could not locate CUDA. "),
    Lit("Please set the environment variable "),
    Lit("CUDA_HOME"),
    Lit(" to the path to the CUDA installation "),
    Lit("and try again.")>>

(* Fault: the f-string without its {CUDA_HOME} field. *)
InvalidMessageNoPath(p) ==
  <<Lit("Invalid CUDA_HOME: directory does not exist")>>

(* line 29 *)
InvalidMessage(p) ==
  <<Lit("Invalid CUDA_HOME: directory does not exist: "), Fmt(p)>>

cython_files == <<"rmm/_lib/**/*.pyx">>

(* sysconfig.get_path("include"), distutils get_python_lib() *)
SysconfigInclude(prefix) == Join(Join(prefix, "include"), "python3.7")

GetPythonLib(prefix) ==
  Join(Join(Join(prefix, "lib"), "python3.7"), "site-packages")

(* Faults: the toolkit include directory listed first; a library directory
   added only when the home came from the probe. *)
ExtensionToolkitFirst(include_dir, prefix) ==
  [name |-> "*",
   sources |-> cython_files,
   include_dirs |-> <<include_dir,
                      Rel(<<"..", "include", "rmm">>),
                      Rel(<<"..", "include">>),
                      Rel(<<"..", "build", "include">>),
                      Dirname(SysconfigInclude(prefix))>>,
   library_dirs |-> <<GetPythonLib(prefix), Join(prefix, "lib")>>,
   libraries |-> <<"rmm">>,
   language |-> "c++",
   extra_compile_args |-> <<"-std=c++14">>]

ExtensionProbeDependent(include_dir, prefix) ==
  [name |-> "*",
   sources |-> cython_files,
   include_dirs |-> <<Rel(<<"..", "include", "rmm">>),
                      Rel(<<"..", "include">>),
                      Rel(<<"..", "build", "include">>),
                      Dirname(SysconfigInclude(prefix)),
                      include_dir>>,
   library_dirs |-> IF probed
                    THEN <<GetPythonLib(prefix), Join(prefix, "lib"),
                           Join(Dirname(include_dir), "lib64")>>
                    ELSE <<GetPythonLib(prefix), Join(prefix, "lib")>>,
   libraries |-> <<"rmm">>,
   language |-> "c++",
   extra_compile_args |-> <<"-std=c++14">>]

(* lines 33-49 *)
Extension(include_dir, prefix) ==
  [name |-> "*",
   sources |-> cython_files,
   include_dirs |-> <<Rel(<<"..", "include", "rmm">>),
                      Rel(<<"..", "include">>),
                      Rel(<<"..", "build", "include">>),
                      Dirname(SysconfigInclude(prefix)),
                      include_dir>>,
   library_dirs |-> <<GetPythonLib(prefix), Join(prefix, "lib")>>,
   libraries |-> <<"rmm">>,
   language |-> "c++",
   extra_compile_args |-> <<"-std=c++14">>]

-----------------------------------------------------------------------------
(* The environments the script is run in. *)

CudaDir == <<"cuda">>
CudaBin == <<"cuda", "bin">>
CudaInclude == <<"cuda", "include">>
UsrDir == <<"usr">>
UsrBin == <<"usr", "bin">>
ProjBin == <<"proj", "bin">>
BuildDir == <<"proj", "build">>

Tool(dir) == Append(dir, "cuda-gdb")

(* Directories every machine has: /, /usr, /usr/bin and the project. *)
BaseDirs == {<<>>, UsrDir, UsrBin, cwd}

(* A filesystem is closed under parents, and a file lies in a directory. *)
WellFormed(f) ==
  /\ \A d \in f.dirs : d # <<>> => SubSeq(d, 1, Len(d) - 1) \in f.dirs
  /\ \A x \in f.files : SubSeq(x, 1, Len(x) - 1) \in f.dirs

Filesystems ==
  {f \in [dirs : {BaseDirs \cup D : D \in SUBSET {CudaDir, CudaBin, CudaInclude, ProjBin}},
          files : SUBSET {Tool(CudaBin), Tool(UsrBin), Tool(ProjBin)}] :
     WellFormed(f)}

Overrides ==
  {False, Str(EmptyStr), Str(Abs(CudaDir)), Str(Abs(UsrDir)),
   Str(Rel(<<"bin">>))}

PathEntries ==
  {Abs(CudaBin), Abs(UsrBin), Rel(<<"bin">>), Rel(<<".", "bin">>)}

SearchPaths ==
  UNION {[1..n -> PathEntries] : n \in 0..MaxPathEntries}

Prefixes == {Abs(UsrDir), Abs(<<"conda">>)}

NoPrev == [valid |-> FALSE, home |-> EmptyStr, host |-> EmptyStr,
           probed |-> FALSE, extensions |-> <<>>]

-----------------------------------------------------------------------------
(* The script. *)

Fresh ==
  /\ pc = "L16"
  /\ CUDA_HOME = False
  /\ path_to_cuda_gdb = None
  /\ probed = FALSE
  /\ error = NoError
  /\ cuda_include_dir = False
  /\ extensions = <<>>
  /\ backend_invoked = FALSE

Init ==
  /\ Fresh
  /\ environ \in Overrides
  /\ PATH \in SearchPaths
  /\ host \in Prefixes
  /\ fs \in Filesystems
  /\ fs0 = fs
  /\ prev = NoPrev

(* line 16: CUDA_HOME = os.environ.get("CUDA_HOME", False) *)
ReadEnviron ==
  /\ pc = "L16"
  /\ CUDA_HOME' = EnvironGet(environ)
  /\ pc' = "L17"
  /\ UNCHANGED <<environ, PATH, host, fs, fs0, path_to_cuda_gdb, probed,
                 error, cuda_include_dir, extensions, backend_invoked, prev>>

(* line 17: if not CUDA_HOME *)
TestOverride ==
  /\ pc = "L17"
  /\ pc' = IF NeedsProbe(CUDA_HOME) THEN "L18" ELSE "L28"
  /\ UNCHANGED <<environ, PATH, host, fs, fs0, CUDA_HOME, path_to_cuda_gdb,
                 probed, error, cuda_include_dir, extensions,
                 backend_invoked, prev>>

(* line 18: path_to_cuda_gdb = shutil.which("cuda-gdb") *)
Probe ==
  /\ pc = "L18"
  /\ path_to_cuda_gdb' = Which(fs, PATH)
  /\ probed' = TRUE
  /\ pc' = "L19"
  /\ UNCHANGED <<environ, PATH, host, fs, fs0, CUDA_HOME, error,
                 cuda_include_dir, extensions, backend_invoked, prev>>

(* lines 19-25: if path_to_cuda_gdb is None: raise OSError(...) *)
RaiseNotFound ==
  /\ pc = "L19"
  /\ ~path_to_cuda_gdb.found
  /\ error' = [kind |-> "OSError", line |-> 20, text |-> NotFoundMessage]
  /\ pc' = "raised"
  /\ UNCHANGED <<environ, PATH, host, fs, fs0, CUDA_HOME, path_to_cuda_gdb,
                 probed, cuda_include_dir, extensions, backend_invoked, prev>>

(* lines 19, 26: CUDA_HOME = dirname(dirname(path_to_cuda_gdb)) *)
DeriveHome ==
  /\ pc = "L19"
  /\ path_to_cuda_gdb.found
  /\ CUDA_HOME' = Str(ToolkitRoot(path_to_cuda_gdb.val))
  /\ pc' = "L28"
  /\ UNCHANGED <<environ, PATH, host, fs, fs0, path_to_cuda_gdb, probed,
                 error, cuda_include_dir, extensions, backend_invoked, prev>>

(* Fault: the error of line 29 is built but the script carries on. *)
RaiseInvalidAndGoOn ==
  /\ pc = "L28"
  /\ ~IsDir(fs, CUDA_HOME.val)
  /\ error' = [kind |-> "OSError", line |-> 29,
               text |-> InvalidMessage(CUDA_HOME.val)]
  /\ cuda_include_dir' = Str(Join(CUDA_HOME.val, "include"))
  /\ pc' = "L33"
  /\ UNCHANGED <<environ, PATH, host, fs, fs0, CUDA_HOME, path_to_cuda_gdb,
                 probed, extensions, backend_invoked, prev>>

(* lines 28-29: if not os.path.isdir(CUDA_HOME): raise OSError(...) *)
RaiseInvalid ==
  /\ pc = "L28"
  /\ ~IsDir(fs, CUDA_HOME.val)
  /\ error' = [kind |-> "OSError", line |-> 29,
               text |-> InvalidMessage(CUDA_HOME.val)]
  /\ pc' = "raised"
  /\ UNCHANGED <<environ, PATH, host, fs, fs0, CUDA_HOME, path_to_cuda_gdb,
                 probed, cuda_include_dir, extensions, backend_invoked, prev>>

(* lines 28, 31: cuda_include_dir = os.path.join(CUDA_HOME, "include") *)
SetIncludeDir ==
  /\ pc = "L28"
  /\ IsDir(fs, CUDA_HOME.val)
  /\ cuda_include_dir' = Str(Join(CUDA_HOME.val, "include"))
  /\ pc' = "L33"
  /\ UNCHANGED <<environ, PATH, host, fs, fs0, CUDA_HOME, path_to_cuda_gdb,
                 probed, error, extensions, backend_invoked, prev>>

(* lines 33-49: extensions = [Extension(...)] *)
BuildExtensions ==
  /\ pc = "L33"
  /\ extensions' = <<Extension(cuda_include_dir.val, host)>>
  /\ pc' = "L51"
  /\ UNCHANGED <<environ, PATH, host, fs, fs0, CUDA_HOME, path_to_cuda_gdb,
                 probed, error, cuda_include_dir, backend_invoked, prev>>

(* lines 51-75: setup(..., ext_modules=cythonize(extensions), ...).  The
   backend writes its build directory; a compile or link failure propagates
   as the backend's own error. *)
Setup ==
  /\ pc = "L51"
  /\ backend_invoked' = TRUE
  /\ \E ok \in BOOLEAN, wrote \in BOOLEAN :
       /\ fs' = IF ok \/ wrote
                THEN [fs EXCEPT !.dirs = @ \cup {BuildDir}]
                ELSE fs
       /\ pc' = IF ok THEN "done" ELSE "raised"
       /\ error' = IF ok THEN error
                   ELSE [kind |-> "BackendError", line |-> 51, text |-> <<>>]
  /\ prev' = [valid |-> TRUE, home |-> CUDA_HOME.val, host |-> host,
              probed |-> probed, extensions |-> extensions]
  /\ UNCHANGED <<environ, PATH, host, fs0, CUDA_HOME, path_to_cuda_gdb,
                 probed, cuda_include_dir, extensions>>

(* The script is run again, with any CUDA_HOME and under any interpreter,
   on the filesystem the previous run left behind. *)
Rerun ==
  /\ pc \in {"done", "raised"}
  /\ pc' = "L16"
  /\ CUDA_HOME' = False
  /\ path_to_cuda_gdb' = None
  /\ probed' = FALSE
  /\ error' = NoError
  /\ cuda_include_dir' = False
  /\ extensions' = <<>>
  /\ backend_invoked' = FALSE
  /\ environ' \in Overrides
  /\ host' \in Prefixes
  /\ fs0' = fs
  /\ UNCHANGED <<PATH, fs, prev>>

Next ==
  \/ ReadEnviron
  \/ TestOverride
  \/ Probe
  \/ RaiseNotFound
  \/ DeriveHome
  \/ RaiseInvalid
  \/ SetIncludeDir
  \/ BuildExtensions
  \/ Setup
  \/ Rerun

Spec == Init /\ [][Next]_vars

-----------------------------------------------------------------------------
(* Vocabulary of the properties, stated on the filesystem and the strings
   themselves rather than through the script's own helpers. *)

Location(p) ==
  LET q == IF p.abs THEN p.parts ELSE <<"proj">> \o p.parts
  IN SelectSeq(q, LAMBDA c : c # ".")

ExistsAsDir(f, p) == (p.abs \/ p.parts # <<>>) /\ Location(p) \in f.dirs

ToolAt(f, entry) ==
  Location([entry EXCEPT !.parts = Append(@, "cuda-gdb")]) \in f.files

ToolOnPath(f, path) == \E i \in 1..Len(path) : ToolAt(f, path[i])

(* The string two "/"-separated components shorter. *)
Grandparent(p) ==
  [abs |-> p.abs, parts |-> SubSeq(p.parts, 1, Len(p.parts) - 2)]

(* p is "<root>/bin/cuda-gdb" for a root that is itself a path. *)
UnderRootBin(p) ==
  /\ Len(p.parts) >= 2
  /\ p.parts[Len(p.parts)] = "cuda-gdb"
  /\ p.parts[Len(p.parts) - 1] = "bin"
  /\ (p.abs \/ Len(p.parts) > 2)

Subdir(p, name) == [abs |-> p.abs, parts |-> p.parts \o <<name>>]

OverrideSet == environ.set

OverrideNonEmpty == environ.set /\ (environ.val.abs \/ environ.val.parts # <<>>)

OverrideValid == environ.set /\ ExistsAsDir(fs0, environ.val)

ToolkitNotFound == error.kind = "OSError" /\ error.line = 20

ToolkitPathInvalid == error.kind = "OSError" /\ error.line = 29

DiscoveryFailed == ToolkitNotFound \/ ToolkitPathInvalid

DiscoverySucceeded ==
  pc \in {"L33", "L51", "done"} \/ error.kind = "BackendError"

Ended == pc \in {"done", "raised"}

HomeAssigned ==
  pc \in {"L28", "L33", "L51", "done"}
    \/ ToolkitPathInvalid \/ error.kind = "BackendError"

NamesVariable(text) ==
  \E i \in 1..Len(text) : text[i].tag = "lit" /\ text[i].lit = "CUDA_HOME"

NamesPath(text, p) ==
  \E i \in 1..Len(text) : text[i].tag = "path" /\ text[i].path = p

ProjectIncludes ==
  <<[abs |-> FALSE, parts |-> <<"..", "include", "rmm">>],
    [abs |-> FALSE, parts |-> <<"..", "include">>],
    [abs |-> FALSE, parts |-> <<"..", "build", "include">>]>>

-----------------------------------------------------------------------------
(* C1: whenever CUDA_HOME is set to an existing directory, discovery never
   fails, shutil.which("cuda-gdb") is never called, and once the override
   has been read the toolkit home is exactly the override value, whether or
   not the tool is on the search path. *)
C1_ValidOverrideWins ==
  OverrideValid =>
    /\ ~probed
    /\ ~path_to_cuda_gdb.found
    /\ ~DiscoveryFailed
    /\ pc \notin {"L18", "L19"}
    /\ (pc # "L16" => CUDA_HOME = [set |-> TRUE, val |-> environ.val])
    /\ (Ended => DiscoverySucceeded)

C1_Witness ==
  /\ OverrideValid
  /\ ToolOnPath(fs0, PATH)
  /\ ~environ.val.abs
  /\ pc = "done"

(* C2: with CUDA_HOME unset and no companion tool on the search path, the
   run can only end in the OSError of line 20, whose message names
   CUDA_HOME, and the filesystem stays as it was when the run started. *)
C2_NotFoundNoMutation ==
  (~OverrideSet /\ ~ToolOnPath(fs0, PATH)) =>
    /\ fs = fs0
    /\ ~backend_invoked
    /\ pc \in {"L16", "L17", "L18", "L19", "raised"}
    /\ (Ended => ToolkitNotFound /\ NamesVariable(error.text))

C2_Witness ==
  /\ ~OverrideSet
  /\ ~ToolOnPath(fs0, PATH)
  /\ PATH # <<>>
  /\ fs0.files # {}
  /\ pc = "raised"
  /\ ToolkitNotFound

C4_AnyInvalidOverrideRaises ==
  (OverrideSet /\ ~ExistsAsDir(fs0, environ.val)) =>
    /\ ~DiscoverySucceeded
    /\ ~ToolkitNotFound
    /\ (Ended => ToolkitPathInvalid /\ NamesPath(error.text, environ.val))

(* C4 amended: whenever CUDA_HOME is set to a non-empty value that is not
   an existing directory, the run can only end in the OSError of line 29
   whose message holds the override value. *)
C4_NonEmptyInvalidOverrideRaises ==
  (OverrideNonEmpty /\ ~ExistsAsDir(fs0, environ.val)) =>
    /\ ~DiscoverySucceeded
    /\ ~ToolkitNotFound
    /\ (Ended => ToolkitPathInvalid /\ NamesPath(error.text, environ.val))

C4_Witness ==
  /\ OverrideNonEmpty
  /\ ~ExistsAsDir(fs0, environ.val)
  /\ pc = "raised"
  /\ ToolkitPathInvalid

(* C5: the backend is handed the build only after discovery succeeded: once
   either discovery error is raised the run has ended with no extension
   built, the backend not invoked and the filesystem untouched, and the
   backend is only ever invoked with an extension built on an existing
   toolkit home. *)
C5_NoBackendAfterFailure ==
  /\ DiscoveryFailed =>
       /\ pc = "raised"
       /\ extensions = <<>>
       /\ ~cuda_include_dir.set
       /\ ~backend_invoked
       /\ fs = fs0
  /\ backend_invoked =>
       /\ ~DiscoveryFailed
       /\ Len(extensions) = 1
       /\ CUDA_HOME.set
       /\ ExistsAsDir(fs0, CUDA_HOME.val)

C5_Witness ==
  /\ ToolkitPathInvalid
  /\ pc = "raised"
  /\ probed

(* C6 as stated: whenever discovery has succeeded, the toolkit home exists
   as a directory and so does its include subdirectory. *)
C6_HomeHasInclude ==
  DiscoverySucceeded =>
    /\ ExistsAsDir(fs, CUDA_HOME.val)
    /\ ExistsAsDir(fs, Subdir(CUDA_HOME.val, "include"))

(* C6 amended: whenever discovery has succeeded, the toolkit home exists as
   a directory and cuda_include_dir is <home>/include; that the include
   subdirectory exists is not checked. *)
C6_HomeExists ==
  DiscoverySucceeded =>
    /\ CUDA_HOME.set
    /\ ExistsAsDir(fs, CUDA_HOME.val)
    /\ cuda_include_dir = [set |-> TRUE, val |-> Subdir(CUDA_HOME.val, "include")]

C6_Witness ==
  /\ DiscoverySucceeded
  /\ pc = "done"
  /\ ~ExistsAsDir(fs, Subdir(CUDA_HOME.val, "include"))

(* C7: the include directories of the extension are, in order, the three
   project directories, the interpreter's include directory and last the
   toolkit's <home>/include. *)
C7_ProjectFirst ==
  extensions # <<>> =>
    /\ Len(extensions) = 1
    /\ Len(extensions[1].include_dirs) = 5
    /\ SubSeq(extensions[1].include_dirs, 1, 3) = ProjectIncludes
    /\ extensions[1].include_dirs[4] = Subdir(host, "include")
    /\ extensions[1].include_dirs[5] = Subdir(CUDA_HOME.val, "include")

C7_Witness ==
  /\ extensions # <<>>
  /\ pc = "L51"
  /\ probed
  /\ Subdir(CUDA_HOME.val, "include") # Subdir(host, "include")

(* C8: a build configured with the same toolkit home and the same
   interpreter as the previous build has the same include directories,
   library directories, libraries and compiler flags, however the home was
   discovered in either run and whatever else changed in between. *)
C8_Deterministic ==
  (extensions # <<>> /\ prev.valid /\ prev.home = CUDA_HOME.val /\ prev.host = host) =>
    /\ extensions[1].include_dirs = prev.extensions[1].include_dirs
    /\ extensions[1].library_dirs = prev.extensions[1].library_dirs
    /\ extensions[1].libraries = prev.extensions[1].libraries
    /\ extensions[1].extra_compile_args = prev.extensions[1].extra_compile_args

C8_Witness ==
  /\ extensions # <<>>
  /\ pc = "L51"
  /\ prev.valid
  /\ prev.home = CUDA_HOME.val
  /\ prev.host = host
  /\ prev.probed # probed
  /\ <<"proj", "build">> \in fs.dirs

(* C9: when CUDA_HOME is set to a non-empty value that is not an existing
   directory while the tool is on the search path under an existing root,
   shutil.which is never called, the probe-derived root is never used, and
   the run can only end in the OSError of line 29. *)
C9_NoFallback ==
  (/\ OverrideNonEmpty
   /\ ~ExistsAsDir(fs0, environ.val)
   /\ \E i \in 1..Len(PATH) :
        ToolAt(fs0, PATH[i]) /\ ExistsAsDir(fs0, Grandparent(Subdir(PATH[i], "cuda-gdb")))) =>
    /\ ~probed
    /\ ~path_to_cuda_gdb.found
    /\ pc \in {"L16", "L17", "L28", "raised"}
    /\ (pc # "L16" => CUDA_HOME = [set |-> TRUE, val |-> environ.val])
    /\ (Ended => ToolkitPathInvalid)

C9_Witness ==
  /\ OverrideNonEmpty
  /\ ~ExistsAsDir(fs0, environ.val)
  /\ \E i \in 1..Len(PATH) :
       ToolAt(fs0, PATH[i]) /\ ExistsAsDir(fs0, Grandparent(Subdir(PATH[i], "cuda-gdb")))
  /\ pc = "raised"

(* C10: CUDA_HOME set to the empty string behaves as CUDA_HOME unset: the
   search path is probed; with the tool absent the run can only end in the
   OSError of line 20; with the tool found the toolkit home is the probe
   result shortened by two components, not the override. *)
C10_EmptyOverrideIsUnset ==
  (environ.set /\ ~environ.val.abs /\ environ.val.parts = <<>>) =>
    /\ pc \notin {"L16", "L17", "L18"} => probed
    /\ ~ToolOnPath(fs0, PATH) =>
         /\ ~ToolkitPathInvalid
         /\ ~DiscoverySucceeded
         /\ (Ended => ToolkitNotFound)
    /\ (ToolOnPath(fs0, PATH) /\ HomeAssigned) =>
         /\ path_to_cuda_gdb.found
         /\ CUDA_HOME = [set |-> TRUE, val |-> Grandparent(path_to_cuda_gdb.val)]

C10_Witness ==
  /\ environ.set
  /\ environ.val.parts = <<>>
  /\ ~environ.val.abs
  /\ ToolOnPath(fs0, PATH)
  /\ pc = "done"

====
